---- MODULE Spec2Model ----
(***************************************************************************)
(* ProvingBroker (proving_broker.ts): a broker that keeps proving jobs in  *)
(* per-proof-type priority queues, hands them to agents, tracks the jobs   *)
(* in progress, re-queues the ones that time out, retries failed jobs a    *)
(* bounded number of times and records results in a database.              *)
(*                                                                         *)
(* Every async method that awaits the database is split at its await: a    *)
(* Call step runs the code before the await and issues the database call,  *)
(* a Resume step runs the code after it.  Other broker operations may run  *)
(* between the two.                                                        *)
(***************************************************************************)
EXTENDS Bags, FiniteSets, Integers, Sequences, TLC

VARIABLES
    queues,        \* ProvingBroker.queues: proof type -> items of the priority queue, head first
    jobsCache,     \* Map job id -> job
    resultsCache,  \* Map job id -> result
    inProgress,    \* Map job id -> metadata, kept in insertion order (JS Map)
    retries,       \* Map job id -> number
    database,      \* ProvingBrokerDatabase: [jobs: id -> job, results: id -> result]
    now,           \* the value timeSource() returns
    maxRetries,    \* ProofRequestBrokerConfig.maxRetries
    started,       \* start() has run
    pending,       \* bag of calls suspended on their database await
    calls          \* number of calls made so far to the methods that write to the database

vars == <<queues, jobsCache, resultsCache, inProgress, retries, database, now,
          maxRetries, started, pending, calls>>

memory == <<queues, jobsCache, resultsCache, inProgress, retries>>

-----------------------------------------------------------------------------
(* Bounds of the model *)

MaxTime == 1
MaxRetriesCfg == 2
MaxCalls == 3

(* the job timeout, in clock ticks of the model *)
proofRequestTimeoutMs == 1

-----------------------------------------------------------------------------
(* Proof types *)

ProvingRequestType ==
    << "PUBLIC_VM", "TUBE_PROOF", "PRIVATE_KERNEL_EMPTY",
       "PRIVATE_BASE_ROLLUP", "PUBLIC_BASE_ROLLUP", "MERGE_ROLLUP", "ROOT_ROLLUP",
       "BLOCK_MERGE_ROLLUP", "BLOCK_ROOT_ROLLUP", "EMPTY_BLOCK_ROOT_ROLLUP",
       "BASE_PARITY", "ROOT_PARITY" >>

ProofTypes == { ProvingRequestType[i] : i \in 1..Len(ProvingRequestType) }

PROOF_TYPES_IN_PRIORITY_ORDER ==
    << "BLOCK_ROOT_ROLLUP", "BLOCK_MERGE_ROLLUP", "ROOT_ROLLUP", "MERGE_ROLLUP",
       "PUBLIC_BASE_ROLLUP", "PRIVATE_BASE_ROLLUP", "PUBLIC_VM", "TUBE_PROOF",
       "ROOT_PARITY", "BASE_PARITY", "EMPTY_BLOCK_ROOT_ROLLUP", "PRIVATE_KERNEL_EMPTY" >>

(* Array.prototype.indexOf, 0-based, -1 when absent *)
indexOf(arr, x) ==
    IF \E i \in 1..Len(arr) : arr[i] = x
    THEN (CHOOSE i \in 1..Len(arr) : arr[i] = x /\ \A k \in 1..(i-1) : arr[k] # x) - 1
    ELSE -1

proofTypeComparatorSwapped(a, b) ==
    LET indexOfA == indexOf(PROOF_TYPES_IN_PRIORITY_ORDER, a)
        indexOfB == indexOf(PROOF_TYPES_IN_PRIORITY_ORDER, b)
    IN  IF indexOfA = indexOfB THEN 0
        ELSE IF indexOfA = -1 THEN 1
        ELSE IF indexOfB = -1 THEN -1
        ELSE IF indexOfA < indexOfB THEN 1
        ELSE -1

proofTypeComparator(a, b) ==
    LET indexOfA == indexOf(PROOF_TYPES_IN_PRIORITY_ORDER, a)
        indexOfB == indexOf(PROOF_TYPES_IN_PRIORITY_ORDER, b)
    IN  IF indexOfA = indexOfB THEN 0
        ELSE IF indexOfA = -1 THEN 1
        ELSE IF indexOfB = -1 THEN -1
        ELSE IF indexOfA < indexOfB THEN -1
        ELSE 1

(* Array.prototype.sort(proofTypeComparator): a stable sort *)
RECURSIVE sortInsert(_, _)
sortInsert(sorted, x) ==
    IF sorted = << >> THEN << x >>
    ELSE IF proofTypeComparator(x, sorted[Len(sorted)]) < 0
         THEN Append(sortInsert(SubSeq(sorted, 1, Len(sorted) - 1), x), sorted[Len(sorted)])
         ELSE Append(sorted, x)

RECURSIVE sortProofs(_)
sortProofs(arr) ==
    IF arr = << >> THEN << >>
    ELSE sortInsert(sortProofs(SubSeq(arr, 1, Len(arr) - 1)), arr[Len(arr)])

-----------------------------------------------------------------------------
(* Inputs *)

(* the proof types jobs and allow lists are drawn from *)
JobTypes == { "BLOCK_ROOT_ROLLUP", "PUBLIC_VM" }

(* V2ProvingJob: the jobs producers submit.  Two records per id, two proof
   types, a tie and a difference in blockNumber within PUBLIC_VM, and a job of
   the higher ranked type with the larger blockNumber *)
Jobs ==
    { [ id |-> 1, type |-> "BLOCK_ROOT_ROLLUP", blockNumber |-> 2 ],
      [ id |-> 1, type |-> "PUBLIC_VM", blockNumber |-> 1 ],
      [ id |-> 2, type |-> "PUBLIC_VM", blockNumber |-> 1 ],
      [ id |-> 2, type |-> "PUBLIC_VM", blockNumber |-> 2 ] }

JobIds == { j.id : j \in Jobs }

Values == { "v1" }
Errors == { "e1" }

(* ProvingJobFilter.allowList: arrays over JobTypes without repetition *)
AllowLists ==
    { << >> } \cup { << t >> : t \in JobTypes }
              \cup { << s, t >> : <<s, t>> \in { p \in JobTypes \X JobTypes : p[1] # p[2] } }

NoList == << "*" >>
NoFilter == << "-" >>

(* filter argument of getProvingJob: {} or { allowList } *)
Filters == { NoList } \cup AllowLists

NoJob == [ id |-> 0, type |-> "", blockNumber |-> 0 ]

-----------------------------------------------------------------------------
(* Maps *)

EmptyMap == [ k \in {} |-> 0 ]
Has(m, k) == k \in DOMAIN m
Set(m, k, v) == [ x \in (DOMAIN m) \cup {k} |-> IF x = k THEN v ELSE m[x] ]
Delete(m, k) == [ x \in (DOMAIN m) \ {k} |-> m[x] ]

(* inProgress: a JS Map whose iteration order matters (timeoutCheck) *)
ipIds == { inProgress[i].id : i \in 1..Len(inProgress) }
ipHas(ip, id) == \E i \in 1..Len(ip) : ip[i].id = id
ipGet(ip, id) == ip[CHOOSE i \in 1..Len(ip) : ip[i].id = id]
ipSet(ip, meta) ==
    IF ipHas(ip, meta.id)
    THEN [ i \in 1..Len(ip) |-> IF ip[i].id = meta.id THEN meta ELSE ip[i] ]
    ELSE Append(ip, meta)
ipDelete(ip, id) == SelectSeq(ip, LAMBDA m : m.id # id)

-----------------------------------------------------------------------------
(* PriorityMemoryQueue(provingJobComparator) *)

provingJobComparatorReversed(a, b) ==
    IF a.blockNumber < b.blockNumber THEN 1
    ELSE IF a.blockNumber > b.blockNumber THEN -1
    ELSE 0

provingJobComparator(a, b) ==
    IF a.blockNumber < b.blockNumber THEN -1
    ELSE IF a.blockNumber > b.blockNumber THEN 1
    ELSE 0

(* put: the item goes behind every item that does not compare greater *)
put(items, job) ==
    LET n == Cardinality({ i \in 1..Len(items) : provingJobComparator(job, items[i]) >= 0 })
    IN  SubSeq(items, 1, n) \o << job >> \o SubSeq(items, n + 1, Len(items))

(* getImmediate: the head of the queue, or undefined *)
getImmediate(items) == IF items = << >> THEN NoJob ELSE Head(items)

enqueueJobInternal(qs, job) == [ qs EXCEPT ![job.type] = put(@, job) ]

-----------------------------------------------------------------------------
(* ProvingBrokerDatabase *)

(* String(err) of an Error with message err *)
String(err) == "Error: " \o err

addProvingJob(db, job) == [ db EXCEPT !.jobs = Set(@, job.id, job) ]
setProvingJobResult(db, id, value) == [ db EXCEPT !.results = Set(@, id, [value |-> value]) ]
setProvingJobError(db, id, err) == [ db EXCEPT !.results = Set(@, id, [error |-> String(err)]) ]
deleteProvingJobAndResult(db, id) ==
    [ jobs |-> Delete(db.jobs, id), results |-> Delete(db.results, id) ]

-----------------------------------------------------------------------------
(* Steps *)

(* a call suspended on its database await; ok: the database call succeeds *)
Call(op, id, job, arg, ok) == [ op |-> op, id |-> id, job |-> job, arg |-> arg, ok |-> ok ]

Suspend(call) == pending' = pending (+) SetToBag({call})
Resume(call) == pending' = pending (-) SetToBag({call})

Init ==
    /\ queues = [ t \in ProofTypes |-> << >> ]
    /\ jobsCache = EmptyMap
    /\ resultsCache = EmptyMap
    /\ inProgress = << >>
    /\ retries = EmptyMap
    /\ database = [ jobs |-> EmptyMap, results |-> EmptyMap ]
    /\ now = 0
    /\ maxRetries \in 1..MaxRetriesCfg
    /\ started = FALSE
    /\ pending = EmptyBag
    /\ calls = 0

-----------------------------------------------------------------------------
(* start *)

Orders(S) == { o \in [ 1..Cardinality(S) -> S ] : \A i, j \in DOMAIN o : o[i] = o[j] => i = j }

restoreJobAlwaysEnqueue(st, item, settled, result) ==
    [ jobsCache |-> Set(st.jobsCache, item.id, item),
      resultsCache |-> IF settled THEN Set(st.resultsCache, item.id, result) ELSE st.resultsCache,
      queues |-> enqueueJobInternal(st.queues, item) ]

(* the body of the loop over [item, result] *)
restoreJob(st, item, settled, result) ==
    [ jobsCache |-> Set(st.jobsCache, item.id, item),
      resultsCache |-> IF settled THEN Set(st.resultsCache, item.id, result) ELSE st.resultsCache,
      queues |-> IF settled THEN st.queues ELSE enqueueJobInternal(st.queues, item) ]

RECURSIVE restore(_, _, _)
restore(db, order, st) ==
    IF order = << >> THEN st
    ELSE LET id == Head(order)
             settled == Has(db.results, id)
         IN  restore(db, Tail(order),
                     restoreJob(st, db.jobs[id], settled, IF settled THEN db.results[id] ELSE NoJob))

(* allProvingJobs() yields the stored jobs in some order *)
start ==
    /\ ~started
    /\ \E order \in Orders(DOMAIN database.jobs) :
         LET st == restore(database, order,
                     [ jobsCache |-> jobsCache, resultsCache |-> resultsCache, queues |-> queues ])
         IN  /\ jobsCache' = st.jobsCache
             /\ resultsCache' = st.resultsCache
             /\ queues' = st.queues
    /\ started' = TRUE
    /\ UNCHANGED <<inProgress, retries, database, now, maxRetries, pending>>

-----------------------------------------------------------------------------
(* enqueueProvingJob *)

(* what a call returns at once: "ok" (returned), "throw" (the assertion failed),
   "await" (suspended on database.addProvingJob) *)
enqueueProvingJobReturns(job) ==
    IF Has(jobsCache, job.id)
    THEN IF job = jobsCache[job.id] THEN "ok" ELSE "throw"
    ELSE "await"

enqueueProvingJobUnchecked(job, ok) ==
    /\ started
    /\ database' = IF ok THEN addProvingJob(database, job) ELSE database
    /\ Suspend(Call("enqueue", job.id, job, "", ok))
    /\ UNCHANGED <<memory, now, maxRetries, started>>

enqueueProvingJobCall(job, ok) ==
    /\ started
    /\ IF Has(jobsCache, job.id)
       THEN UNCHANGED <<database, pending>>
       ELSE /\ database' = IF ok THEN addProvingJob(database, job) ELSE database
            /\ Suspend(Call("enqueue", job.id, job, "", ok))
    /\ UNCHANGED <<memory, now, maxRetries, started>>

enqueueProvingJobResume(c) ==
    /\ c.op = "enqueue"
    /\ Resume(c)
    /\ IF c.ok
       THEN /\ jobsCache' = Set(jobsCache, c.job.id, c.job)
            /\ queues' = enqueueJobInternal(queues, c.job)
       ELSE UNCHANGED <<jobsCache, queues>>
    /\ UNCHANGED <<resultsCache, inProgress, retries, database, now, maxRetries, started>>

-----------------------------------------------------------------------------
(* removeAndCancelProvingJob *)

removeAndCancelProvingJobCall(id, ok) ==
    /\ started
    /\ database' = IF ok THEN deleteProvingJobAndResult(database, id) ELSE database
    /\ Suspend(Call("cancel", id, NoJob, "", ok))
    /\ UNCHANGED <<memory, now, maxRetries, started>>

removeAndCancelProvingJobResume(c) ==
    /\ c.op = "cancel"
    /\ Resume(c)
    /\ IF c.ok
       THEN /\ jobsCache' = Delete(jobsCache, c.id)
            /\ resultsCache' = Delete(resultsCache, c.id)
            /\ inProgress' = ipDelete(inProgress, c.id)
            /\ retries' = Delete(retries, c.id)
       ELSE UNCHANGED <<jobsCache, resultsCache, inProgress, retries>>
    /\ UNCHANGED <<queues, database, now, maxRetries, started>>

-----------------------------------------------------------------------------
(* getProvingJobStatus *)

statusOf(results, jobs, ip, id) ==
    IF ~Has(results, id)
    THEN IF ~Has(jobs, id) THEN [ status |-> "not-found" ]
         ELSE [ status |-> IF ipHas(ip, id) THEN "in-progress" ELSE "in-queue" ]
    ELSE IF "value" \in DOMAIN results[id]
         THEN [ status |-> "resolved", value |-> results[id].value ]
         ELSE [ status |-> "rejected", error |-> results[id].error ]

status(id) == statusOf(resultsCache, jobsCache, inProgress, id)

getProvingJobStatus(id) ==
    /\ started
    /\ UNCHANGED <<memory, database, now, maxRetries, started, pending>>

-----------------------------------------------------------------------------
(* getProvingJob *)

allProofs == sortProofs(ProvingRequestType)
allowedProofsIgnoringFilter(filter) == allProofs

allowedProofs(filter) == IF filter = NoList THEN allProofs ELSE sortProofs(filter)

(* the first allowed proof type, in sorted order, whose queue has an item; 0 if none *)
firstHit(qs, allowed) ==
    IF \E i \in 1..Len(allowed) : qs[allowed[i]] # << >>
    THEN CHOOSE i \in 1..Len(allowed) :
            /\ qs[allowed[i]] # << >>
            /\ \A k \in 1..(i - 1) : qs[allowed[k]] = << >>
    ELSE 0

(* the item getProvingJob returns and the queues and in-progress set it leaves *)
getJob(qs, ip, time, filter) ==
    LET allowed == allowedProofs(filter)
        hit == firstHit(qs, allowed)
    IN  IF hit = 0
        THEN [ item |-> NoJob, queues |-> qs, inProgress |-> ip ]
        ELSE LET proofType == allowed[hit]
                 item == getImmediate(qs[proofType])
             IN  [ item |-> item,
                   queues |-> [ qs EXCEPT ![proofType] = Tail(@) ],
                   inProgress |-> ipSet(ip, [ id |-> item.id, startedAt |-> time,
                                               lastUpdatedAt |-> time ]) ]

(* the job a call returns, NoJob for undefined *)
getProvingJobReturns(filter) == getJob(queues, inProgress, now, filter).item

getProvingJob(filter) ==
    /\ started
    /\ UNCHANGED <<jobsCache, resultsCache, retries, database, now, maxRetries, started, pending>>
    /\ LET r == getJob(queues, inProgress, now, filter)
       IN  /\ queues' = r.queues
           /\ inProgress' = r.inProgress

-----------------------------------------------------------------------------
(* reportProvingJobError *)

retriesOf(id) == IF Has(retries, id) THEN retries[id] ELSE 0

shouldRetryOffByOne(retry, n, max) == retry /\ n < max
shouldRetryAlways(retry, n, max) == retry

(* the job goes back to its queue instead of being marked as failed *)
shouldRetry(retry, n, max) == retry /\ n + 1 < max

reportProvingJobErrorCall(id, err, retry, ok) ==
    /\ started
    /\ IF ~Has(jobsCache, id)
       THEN UNCHANGED <<memory, database, pending>>
       ELSE /\ inProgress' = ipDelete(inProgress, id)
            /\ IF shouldRetry(retry, retriesOf(id), maxRetries)
               THEN /\ retries' = Set(retries, id, retriesOf(id) + 1)
                    /\ queues' = enqueueJobInternal(queues, jobsCache[id])
                    /\ UNCHANGED <<database, pending>>
               ELSE /\ database' = IF ok THEN setProvingJobError(database, id, err) ELSE database
                    /\ Suspend(Call("error", id, NoJob, err, ok))
                    /\ UNCHANGED <<queues, retries>>
            /\ UNCHANGED <<jobsCache, resultsCache>>
    /\ UNCHANGED <<now, maxRetries, started>>

reportProvingJobErrorResume(c) ==
    /\ c.op = "error"
    /\ Resume(c)
    /\ IF c.ok
       THEN resultsCache' = Set(resultsCache, c.id, [ error |-> String(c.arg) ])
       ELSE UNCHANGED resultsCache
    /\ UNCHANGED <<queues, jobsCache, inProgress, retries, database, now, maxRetries, started>>

-----------------------------------------------------------------------------
(* reportProvingJobProgress *)

(* the job a call returns, NoJob for undefined *)
reportProvingJobProgressReturns(id, filter) ==
    IF ipHas(inProgress, id) THEN NoJob
    ELSE IF filter # NoFilter THEN getProvingJobReturns(filter)
    ELSE NoJob

reportProvingJobProgressAlwaysSendsJob(id, filter) ==
    /\ started
    /\ UNCHANGED <<jobsCache, resultsCache, retries, database, now, maxRetries, started, pending>>
    /\ IF filter # NoFilter
       THEN LET r == getJob(queues, inProgress, now, filter)
            IN  /\ queues' = r.queues
                /\ inProgress' = r.inProgress
       ELSE IF ipHas(inProgress, id)
       THEN /\ inProgress' = ipSet(inProgress, [ ipGet(inProgress, id) EXCEPT !.lastUpdatedAt = now ])
            /\ UNCHANGED queues
       ELSE UNCHANGED <<queues, inProgress>>

reportProvingJobProgress(id, filter) ==
    /\ started
    /\ UNCHANGED <<jobsCache, resultsCache, retries, database, now, maxRetries, started, pending>>
    /\ IF ipHas(inProgress, id)
       THEN /\ inProgress' = ipSet(inProgress, [ ipGet(inProgress, id) EXCEPT !.lastUpdatedAt = now ])
            /\ UNCHANGED queues
       ELSE IF filter # NoFilter
       THEN LET r == getJob(queues, inProgress, now, filter)
            IN  /\ queues' = r.queues
                /\ inProgress' = r.inProgress
       ELSE UNCHANGED <<queues, inProgress>>

-----------------------------------------------------------------------------
(* reportProvingJobSuccess *)

reportProvingJobSuccessUnknownJob(id, value, ok) ==
    /\ started
    /\ inProgress' = ipDelete(inProgress, id)
    /\ database' = IF ok THEN setProvingJobResult(database, id, value) ELSE database
    /\ Suspend(Call("success", id, NoJob, value, ok))
    /\ UNCHANGED <<queues, jobsCache, resultsCache, retries, now, maxRetries, started>>

reportProvingJobSuccessCall(id, value, ok) ==
    /\ started
    /\ IF ~Has(jobsCache, id)
       THEN UNCHANGED <<inProgress, database, pending>>
       ELSE /\ inProgress' = ipDelete(inProgress, id)
            /\ database' = IF ok THEN setProvingJobResult(database, id, value) ELSE database
            /\ Suspend(Call("success", id, NoJob, value, ok))
    /\ UNCHANGED <<queues, jobsCache, resultsCache, retries, now, maxRetries, started>>

reportProvingJobSuccessResume(c) ==
    /\ c.op = "success"
    /\ Resume(c)
    /\ IF c.ok
       THEN resultsCache' = Set(resultsCache, c.id, [ value |-> c.arg ])
       ELSE UNCHANGED resultsCache
    /\ UNCHANGED <<queues, jobsCache, inProgress, retries, database, now, maxRetries, started>>

-----------------------------------------------------------------------------
(* timeoutCheck *)

timedOutStrictly(time, metadata) == time - metadata.lastUpdatedAt > proofRequestTimeoutMs

(* elapsedSinceLastUpdate >= this.proofRequestTimeoutMs *)
timedOut(time, metadata) == time - metadata.lastUpdatedAt >= proofRequestTimeoutMs

RECURSIVE sweep(_, _, _, _)
sweep(entries, jobs, time, st) ==
    IF entries = << >> THEN st
    ELSE LET metadata == Head(entries)
             id == metadata.id
         IN  IF ~Has(jobs, id)
             THEN sweep(Tail(entries), jobs, time,
                        [ st EXCEPT !.inProgress = ipDelete(@, id) ])
             ELSE IF timedOut(time, metadata)
             THEN sweep(Tail(entries), jobs, time,
                        [ inProgress |-> ipDelete(st.inProgress, id),
                          queues |-> enqueueJobInternal(st.queues, jobs[id]) ])
             ELSE sweep(Tail(entries), jobs, time, st)

timeoutCheckDropsOnly ==
    /\ started
    /\ LET st == sweep(inProgress, jobsCache, now, [ inProgress |-> inProgress, queues |-> queues ])
       IN  inProgress' = st.inProgress
    /\ UNCHANGED <<queues, jobsCache, resultsCache, retries, database, now, maxRetries, started, pending>>

timeoutCheck ==
    /\ started
    /\ LET st == sweep(inProgress, jobsCache, now, [ inProgress |-> inProgress, queues |-> queues ])
       IN  /\ inProgress' = st.inProgress
           /\ queues' = st.queues
    /\ UNCHANGED <<jobsCache, resultsCache, retries, database, now, maxRetries, started, pending>>

-----------------------------------------------------------------------------

(* The broker on a database whose calls succeed.  The calls that can write to
   the database are counted; the model stops taking them at MaxCalls. *)

StoreUp == { TRUE }
Counted == calls < MaxCalls /\ calls' = calls + 1

Start == start /\ UNCHANGED calls

EnqueueProvingJob ==
    \E job \in Jobs, ok \in StoreUp : enqueueProvingJobCall(job, ok) /\ Counted

EnqueueProvingJobResume ==
    \E c \in BagToSet(pending) : enqueueProvingJobResume(c) /\ UNCHANGED calls

RemoveAndCancelProvingJob ==
    \E id \in JobIds, ok \in StoreUp : removeAndCancelProvingJobCall(id, ok) /\ Counted

RemoveAndCancelProvingJobResume ==
    \E c \in BagToSet(pending) : removeAndCancelProvingJobResume(c) /\ UNCHANGED calls

GetProvingJobStatus ==
    \E id \in JobIds : getProvingJobStatus(id) /\ UNCHANGED calls

GetProvingJob ==
    \E filter \in Filters : getProvingJob(filter) /\ UNCHANGED calls

ReportProvingJobError ==
    \E id \in JobIds, err \in Errors, retry \in BOOLEAN, ok \in StoreUp :
        reportProvingJobErrorCall(id, err, retry, ok) /\ Counted

ReportProvingJobErrorResume ==
    \E c \in BagToSet(pending) : reportProvingJobErrorResume(c) /\ UNCHANGED calls

ReportProvingJobProgress ==
    \E id \in JobIds, filter \in Filters \cup { NoFilter } :
        reportProvingJobProgress(id, filter) /\ UNCHANGED calls

ReportProvingJobSuccess ==
    \E id \in JobIds, value \in Values, ok \in StoreUp :
        reportProvingJobSuccessCall(id, value, ok) /\ Counted

ReportProvingJobSuccessResume ==
    \E c \in BagToSet(pending) : reportProvingJobSuccessResume(c) /\ UNCHANGED calls

TimeoutCheck == timeoutCheck /\ UNCHANGED calls

Tick ==
    /\ now < MaxTime
    /\ now' = now + 1
    /\ UNCHANGED <<memory, database, maxRetries, started, pending, calls>>

Next ==
    \/ Start
    \/ EnqueueProvingJob
    \/ EnqueueProvingJobResume
    \/ RemoveAndCancelProvingJob
    \/ RemoveAndCancelProvingJobResume
    \/ GetProvingJobStatus
    \/ GetProvingJob
    \/ ReportProvingJobError
    \/ ReportProvingJobErrorResume
    \/ ReportProvingJobProgress
    \/ ReportProvingJobSuccess
    \/ ReportProvingJobSuccessResume
    \/ TimeoutCheck
    \/ Tick

Spec == Init /\ [][Next]_vars


(* The broker on a database whose calls can fail: the await throws and the
   rest of the method does not run. *)
EnqueueProvingJobStoreFails ==
    \E job \in Jobs : enqueueProvingJobCall(job, FALSE) /\ Counted

RemoveAndCancelProvingJobStoreFails ==
    \E id \in JobIds : removeAndCancelProvingJobCall(id, FALSE) /\ Counted

ReportProvingJobErrorStoreFails ==
    \E id \in JobIds, err \in Errors, retry \in BOOLEAN :
        reportProvingJobErrorCall(id, err, retry, FALSE) /\ Counted

ReportProvingJobSuccessStoreFails ==
    \E id \in JobIds, value \in Values :
        reportProvingJobSuccessCall(id, value, FALSE) /\ Counted

NextStoreFails ==
    \/ Next
    \/ EnqueueProvingJobStoreFails
    \/ RemoveAndCancelProvingJobStoreFails
    \/ ReportProvingJobErrorStoreFails
    \/ ReportProvingJobSuccessStoreFails

SpecStoreFails == Init /\ [][NextStoreFails]_vars

(* The broker process dies and a new one is constructed on the same database:
   the caches, the queues, the in-progress set, the retry counters and the
   suspended calls are gone, the database is what it was. *)
Crash ==
    /\ started
    /\ queues' = [ t \in ProofTypes |-> << >> ]
    /\ jobsCache' = EmptyMap
    /\ resultsCache' = EmptyMap
    /\ inProgress' = << >>
    /\ retries' = EmptyMap
    /\ pending' = EmptyBag
    /\ started' = FALSE
    /\ UNCHANGED <<database, now, maxRetries, calls>>

NextRecovery == Next \/ Crash

SpecRecovery == Init /\ [][NextRecovery]_vars

(* The broker with its clock advancing and its timeoutCheck, which start hands
   to a RunningPromise, run again and again. *)
SpecSweeper == Init /\ [][Next]_vars /\ WF_vars(Tick) /\ WF_vars(TimeoutCheck)

-----------------------------------------------------------------------------
(* Shapes of the state *)

TypeOK ==
    /\ \A t \in ProofTypes : \A i \in 1..Len(queues[t]) : queues[t][i] \in Jobs
    /\ \A id \in DOMAIN jobsCache : jobsCache[id] \in Jobs /\ jobsCache[id].id = id
    /\ DOMAIN resultsCache \subseteq JobIds
    /\ now \in 0..MaxTime
    /\ BagCardinality(pending) <= calls
    /\ calls \in 0..MaxCalls

-----------------------------------------------------------------------------
(* What the properties speak of *)

Occurrences(qs, id) ==
    Cardinality({ <<t, i>> \in ProofTypes \X (1..MaxCalls) :
                      i <= Len(qs[t]) /\ qs[t][i].id = id })
Queued(id) == Occurrences(queues, id) > 0
Leased(id) == ipHas(inProgress, id)
Settled(id) == Has(resultsCache, id)
Quiescent == pending = EmptyBag
InFlight(id) == \E c \in BagToSet(pending) : c.id = id

(* the rank of a proof type: its place in the priority list, unranked types last *)
Rank(t) ==
    IF \E i \in 1..Len(PROOF_TYPES_IN_PRIORITY_ORDER) : PROOF_TYPES_IN_PRIORITY_ORDER[i] = t
    THEN CHOOSE i \in 1..Len(PROOF_TYPES_IN_PRIORITY_ORDER) : PROOF_TYPES_IN_PRIORITY_ORDER[i] = t
    ELSE Len(PROOF_TYPES_IN_PRIORITY_ORDER) + 1

Allowed(filter) ==
    IF filter = NoList THEN ProofTypes ELSE { filter[i] : i \in 1..Len(filter) }

-----------------------------------------------------------------------------
(* C1: once a job has a result in resultsCache and in the database, a later
   reportProvingJobSuccess or reportProvingJobError for it changes neither the
   recorded result, nor the database, nor the queues, nor the in-progress set:
   the first report wins. *)
C1_FirstReportWins ==
    [][ \A id \in JobIds :
          ( /\ Settled(id)
            /\ Has(database.results, id)
            /\ \/ \E value \in Values, ok \in BOOLEAN : reportProvingJobSuccessCall(id, value, ok)
               \/ \E err \in Errors, retry \in BOOLEAN, ok \in BOOLEAN :
                      reportProvingJobErrorCall(id, err, retry, ok) )
          => UNCHANGED <<resultsCache, database, queues, inProgress, pending>> ]_vars

(* C2: whenever no call is in flight, each job id is in at most one of: a
   queue, the in-progress set, the results. *)
C2_AtMostOneOfQueuedLeasedSettled ==
    Quiescent =>
        \A id \in JobIds :
            /\ ~(Queued(id) /\ Leased(id))
            /\ ~(Queued(id) /\ Settled(id))
            /\ ~(Leased(id) /\ Settled(id))

(* C3: a job id occurs at most once in all the queues together. *)
C3_QueuedAtMostOnce == \A id \in JobIds : Occurrences(queues, id) <= 1

(* C4: when removeAndCancelProvingJob(id) returns, the status of id is
   not-found; and a reportProvingJobSuccess or reportProvingJobError for an id
   that is not in jobsCache changes no cache, queue or in-progress entry,
   writes nothing to the database and suspends on nothing. *)
C4_CancelledJobStaysGone ==
    [][ /\ \A c \in BagToSet(pending) :
             removeAndCancelProvingJobResume(c) /\ c.ok
                => statusOf(resultsCache', jobsCache', inProgress', c.id) = [ status |-> "not-found" ]
        /\ \A id \in JobIds :
             ( /\ ~Has(jobsCache, id)
               /\ \/ \E value \in Values, ok \in BOOLEAN : reportProvingJobSuccessCall(id, value, ok)
                  \/ \E err \in Errors, retry \in BOOLEAN, ok \in BOOLEAN :
                         reportProvingJobErrorCall(id, err, retry, ok) )
             => /\ UNCHANGED <<memory, database, pending>>
                /\ statusOf(resultsCache', jobsCache', inProgress', id)
                      = statusOf(resultsCache, jobsCache, inProgress, id) ]_vars

(* a job was enqueued, then cancelled while an agent may still hold it: it is
   in neither cache nor the database, and a report for it can arrive *)
C4_Witness ==
    \E id \in JobIds :
        /\ Quiescent
        /\ ~Has(jobsCache, id)
        /\ ~Has(database.jobs, id)
        /\ ~Has(database.results, id)
        /\ status(id) = [ status |-> "not-found" ]
        /\ \E other \in JobIds : Has(jobsCache, other)

(* C5: removeAndCancelProvingJob(id) takes id out of its queue: when it
   returns, id is in no queue. *)
C5_CancelRemovesFromQueue ==
    [][ \A c \in BagToSet(pending) :
          removeAndCancelProvingJobResume(c) /\ c.ok => Occurrences(queues', c.id) = 0 ]_vars

(* C6: bounded retries.  A failure reported with retry for a job that is in
   progress (not queued, not settled, no call for it in flight) puts the job
   back in its queue once, counts one more retry and records no result as long
   as fewer than maxRetries - 1 failures were counted; the failure reported
   after maxRetries - 1 counted ones is written as the job's error, after which
   the status is rejected with that error and the job is in no queue.  A
   failure reported without retry is written as the job's error whatever the
   count. *)
C6_BoundedRetries ==
    [][ /\ \A id \in JobIds, err \in Errors, ok \in BOOLEAN :
             ( /\ reportProvingJobErrorCall(id, err, TRUE, ok)
               /\ Has(jobsCache, id) /\ Leased(id) /\ ~Queued(id) /\ ~Settled(id) /\ ~InFlight(id) )
             => IF retriesOf(id) < maxRetries - 1
                THEN /\ Occurrences(queues', id) = 1
                     /\ retries' = Set(retries, id, retriesOf(id) + 1)
                     /\ ~ipHas(inProgress', id)
                     /\ UNCHANGED <<resultsCache, database, pending>>
                ELSE /\ retriesOf(id) = maxRetries - 1
                     /\ pending' = pending (+) SetToBag({ Call("error", id, NoJob, err, ok) })
                     /\ Occurrences(queues', id) = 0
                     /\ ~ipHas(inProgress', id)
                     /\ UNCHANGED retries
        /\ \A id \in JobIds, err \in Errors, ok \in BOOLEAN :
             reportProvingJobErrorCall(id, err, FALSE, ok) /\ Has(jobsCache, id)
             => /\ pending' = pending (+) SetToBag({ Call("error", id, NoJob, err, ok) })
                /\ UNCHANGED <<queues, retries>>
        /\ \A c \in BagToSet(pending) :
             reportProvingJobErrorResume(c) /\ c.ok
             => /\ statusOf(resultsCache', jobsCache', inProgress', c.id)
                     = [ status |-> "rejected", error |-> String(c.arg) ]
                /\ UNCHANGED queues ]_vars

(* with maxRetries = 2 a job failed twice with retry: one retry was counted,
   the second failure is its result and it is neither queued nor in progress *)
C6_Witness ==
    \E id \in JobIds :
        /\ maxRetries = 2
        /\ retriesOf(id) = 1
        /\ Settled(id)
        /\ status(id).status = "rejected"
        /\ ~Queued(id)
        /\ ~Leased(id)
        /\ Quiescent

(* C7: no retry counter exceeds maxRetries. *)
C7_RetriesWithinMax == \A id \in DOMAIN retries : retries[id] <= maxRetries

(* a job whose retry counter stands at the last value the broker lets it reach,
   and for which a further failure with retry has been reported *)
C7_Witness ==
    \E id \in JobIds :
        /\ maxRetries = 2
        /\ Has(retries, id)
        /\ retries[id] = maxRetries - 1
        /\ Settled(id)

(* C8: enqueueProvingJob for an id that is in jobsCache changes nothing (no
   cache, queue, in-progress or retry entry, no database write, no suspended
   call); it returns when the job equals the cached one and throws when it
   differs. *)
C8_EnqueueIdempotent ==
    [][ \A job \in Jobs, ok \in BOOLEAN :
          enqueueProvingJobCall(job, ok) /\ Has(jobsCache, job.id)
          => /\ UNCHANGED <<memory, database, pending>>
             /\ enqueueProvingJobReturns(job) = "ok" <=> job = jobsCache[job.id]
             /\ enqueueProvingJobReturns(job) = "throw" <=> job # jobsCache[job.id] ]_vars

(* jobs known to the broker in each of the three conditions: one in progress
   with a counted retry or settled, another queued *)
C8_Witness ==
    /\ \E id \in JobIds : Has(jobsCache, id) /\ (Leased(id) \/ Settled(id))
    /\ \E id \in JobIds : Has(jobsCache, id) /\ Queued(id) /\ ~Leased(id) /\ ~Settled(id)

(* C9: whenever no call is in flight, every result in resultsCache is the
   result the database holds for that job. *)
C9_ResultsMirrorDatabase ==
    Quiescent =>
        \A id \in DOMAIN resultsCache :
            Has(database.results, id) /\ database.results[id] = resultsCache[id]

(* C10: getProvingJob returns a job of the best ranked allowed proof type
   whose queue has an item, whatever the block numbers in the other queues,
   takes it off its queue, and records it alone as in progress with startedAt
   and lastUpdatedAt set to the current time. *)
C10_DispatchByRank ==
    [][ \A filter \in Filters :
          LET ret == getProvingJobReturns(filter)
          IN  getProvingJob(filter) /\ ret # NoJob
          => /\ ret.type \in Allowed(filter)
             /\ queues[ret.type] # << >>
             /\ \A t \in Allowed(filter) : queues[t] # << >> => Rank(ret.type) <= Rank(t)
             /\ ret \in { queues[ret.type][i] : i \in 1..Len(queues[ret.type]) }
             /\ \A t \in ProofTypes :
                  Len(queues'[t]) = IF t = ret.type THEN Len(queues[t]) - 1 ELSE Len(queues[t])
             /\ ipGet(inProgress', ret.id)
                  = [ id |-> ret.id, startedAt |-> now, lastUpdatedAt |-> now ]
             /\ \A i \in 1..Len(inProgress) :
                  inProgress[i].id # ret.id => ipGet(inProgress', inProgress[i].id) = inProgress[i]
             /\ { inProgress'[i].id : i \in 1..Len(inProgress') } = ipIds \cup { ret.id } ]_vars

(* a BLOCK_ROOT_ROLLUP job has just been handed out while a PUBLIC_VM job with
   a smaller block number waits in its queue *)
C10_Witness ==
    \E i \in 1..Len(inProgress) :
        LET id == inProgress[i].id
        IN  /\ Has(jobsCache, id)
            /\ jobsCache[id].type = "BLOCK_ROOT_ROLLUP"
            /\ inProgress[i].startedAt = now
            /\ inProgress[i].lastUpdatedAt = now
            /\ queues["PUBLIC_VM"] # << >>
            /\ Head(queues["PUBLIC_VM"]).blockNumber < jobsCache[id].blockNumber

(* q2 is q with items put in one at a time, each behind every item whose
   block number is not greater and in front of every item whose block number
   is greater *)
RECURSIVE PutInOrder(_, _)
PutInOrder(q, q2) ==
    IF Len(q2) <= Len(q) THEN q2 = q
    ELSE \E n \in 1..Len(q2) :
            /\ \A i \in 1..(n - 1) : q2[i].blockNumber <= q2[n].blockNumber
            /\ \A i \in (n + 1)..Len(q2) : q2[i].blockNumber > q2[n].blockNumber
            /\ PutInOrder(q, SubSeq(q2, 1, n - 1) \o SubSeq(q2, n + 1, Len(q2)))

(* C11: within one proof type, every step that takes a job off the queue
   (getProvingJob, or reportProvingJobProgress handing out a job) takes the
   oldest queued job among those of the smallest block number; every step that
   adds jobs to a queue (enqueue, retry, timeout) puts each behind the queued
   jobs of the same or a smaller block number and in front of those of a
   greater one, and moves no other entry. *)
C11_EpochOrderWithinType ==
    [][ \A t \in ProofTypes :
          /\ Len(queues'[t]) < Len(queues[t])
               => /\ queues'[t] = Tail(queues[t])
                  /\ \A i \in 1..Len(queues[t]) :
                       Head(queues[t]).blockNumber <= queues[t][i].blockNumber
                  /\ ipHas(inProgress', Head(queues[t]).id)
          /\ Len(queues'[t]) > Len(queues[t]) => PutInOrder(queues[t], queues'[t])
          /\ Len(queues'[t]) = Len(queues[t]) => queues'[t] = queues[t] ]_vars

(* a PUBLIC_VM job of block 1 is in progress, handed out at this instant, while
   a PUBLIC_VM job of block 2 that a retry put back waits in the queue *)
C11_Witness ==
    \E i \in 1..Len(inProgress) :
        LET id == inProgress[i].id
        IN  /\ Has(jobsCache, id)
            /\ jobsCache[id].type = "PUBLIC_VM"
            /\ jobsCache[id].blockNumber = 1
            /\ inProgress[i].startedAt = now
            /\ queues["PUBLIC_VM"] # << >>
            /\ Head(queues["PUBLIC_VM"]).blockNumber = 2
            /\ retriesOf(Head(queues["PUBLIC_VM"]).id) = 1

(* C12: getProvingJob hands out only jobs of an allowed proof type, and it
   returns undefined exactly when the queue of every allowed proof type is
   empty (then it changes nothing), whatever waits in the queues of the proof
   types that are not allowed; without an allow list every proof type is
   allowed. *)
C12_OnlyAllowedTypes ==
    [][ \A filter \in Filters :
          getProvingJob(filter)
          => LET ret == getProvingJobReturns(filter)
             IN  /\ ret # NoJob => ret.type \in Allowed(filter)
                 /\ ret = NoJob <=> \A t \in Allowed(filter) : queues[t] = << >>
                 /\ ret = NoJob => UNCHANGED <<queues, inProgress>>
                 /\ filter = NoList
                      => { allowedProofs(filter)[i] : i \in 1..Len(allowedProofs(filter)) }
                            = ProofTypes ]_vars

(* job 2, a PUBLIC_VM job, is in progress since this instant while a job of the
   better ranked BLOCK_ROOT_ROLLUP waits in its queue *)
C12_Witness ==
    /\ queues["BLOCK_ROOT_ROLLUP"] # << >>
    /\ Rank("BLOCK_ROOT_ROLLUP") < Rank("PUBLIC_VM")
    /\ \E i \in 1..Len(inProgress) :
          /\ Has(jobsCache, inProgress[i].id)
          /\ jobsCache[inProgress[i].id].type = "PUBLIC_VM"
          /\ inProgress[i].startedAt = now
          /\ ~Queued(inProgress[i].id)

(* C13: a run of timeoutCheck, for each in-progress entry whose job is in
   jobsCache, deletes the entry and puts the job back in its queue once exactly
   when now - lastUpdatedAt >= proofRequestTimeoutMs, and leaves a younger
   entry as it is; it changes no retry counter and records no result, so
   timeouts alone never mark a job as failed. *)
C13_TimeoutRequeues ==
    [][ timeoutCheck
        => /\ \A i \in 1..Len(inProgress) :
                LET metadata == inProgress[i]
                    id == metadata.id
                    stale == now - metadata.lastUpdatedAt >= proofRequestTimeoutMs
                IN  Has(jobsCache, id)
                    => /\ stale <=> ~ipHas(inProgress', id)
                       /\ stale => Occurrences(queues', id) = Occurrences(queues, id) + 1
                       /\ ~stale => /\ ipGet(inProgress', id) = metadata
                                    /\ Occurrences(queues', id) = Occurrences(queues, id)
           /\ UNCHANGED <<retries, resultsCache, jobsCache, database, pending>> ]_vars

(* a job that was handed out and not heard of for proofRequestTimeoutMs is
   back in its queue with no retry counted and no result, next to a job whose
   heartbeat at this instant kept it in progress *)
C13_Witness ==
    /\ now >= proofRequestTimeoutMs
    /\ \E id \in JobIds :
          /\ Has(jobsCache, id) /\ Queued(id) /\ ~Leased(id)
          /\ retriesOf(id) = 0 /\ ~Settled(id)
    /\ \E i \in 1..Len(inProgress) :
          /\ Has(jobsCache, inProgress[i].id)
          /\ inProgress[i].startedAt < now
          /\ inProgress[i].lastUpdatedAt = now

(* C14: reportProvingJobProgress(id, filter) for an id that is in progress
   sets that entry's lastUpdatedAt to now, changes nothing else, hands out no
   job and returns undefined; for an id that is not in progress and a filter it
   returns what getProvingJob(filter) returns and changes the state as
   getProvingJob(filter) does; for an id that is not in progress and no filter
   it returns undefined and changes nothing. *)
C14_Heartbeat ==
    [][ \A id \in JobIds, filter \in Filters \cup { NoFilter } :
          reportProvingJobProgress(id, filter)
          => IF Leased(id)
             THEN /\ reportProvingJobProgressReturns(id, filter) = NoJob
                  /\ Len(inProgress') = Len(inProgress)
                  /\ \A i \in 1..Len(inProgress) :
                       inProgress'[i] = IF inProgress[i].id = id
                                        THEN [ id |-> id, startedAt |-> inProgress[i].startedAt,
                                               lastUpdatedAt |-> now ]
                                        ELSE inProgress[i]
                  /\ UNCHANGED <<queues, jobsCache, resultsCache, retries, database, pending, now>>
             ELSE IF filter # NoFilter
             THEN /\ reportProvingJobProgressReturns(id, filter) = getProvingJobReturns(filter)
                  /\ getProvingJob(filter)
             ELSE /\ reportProvingJobProgressReturns(id, filter) = NoJob
                  /\ UNCHANGED <<memory, database, pending, now>> ]_vars

(* a job handed out earlier whose heartbeat arrived at this instant, while
   another job waits in a queue *)
C14_Witness ==
    /\ \E i \in 1..Len(inProgress) :
          /\ inProgress[i].startedAt < now
          /\ inProgress[i].lastUpdatedAt = now
    /\ \E id \in JobIds : Queued(id) /\ ~Leased(id)

(* the jobs that successive getProvingJob calls with the same filter return
   until they return undefined *)
RECURSIVE Drain(_, _, _)
Drain(qs, ip, filter) ==
    LET r == getJob(qs, ip, now, filter)
    IN  IF r.item = NoJob THEN { }
        ELSE { r.item } \cup Drain(r.queues, r.inProgress, filter)

(* C15: start, on a database holding jobs and results of some of them, leaves
   jobsCache equal to the stored jobs, resultsCache equal to the stored results
   of those jobs, exactly the stored jobs without a result in the queues, each
   once and in the queue of its proof type, and nothing in progress and no
   retry counted; the status of a stored job with a result is resolved or
   rejected with that result, no getProvingJob after start returns such a job
   before another call changes the queues, and every stored job without a
   result is returned by one of the getProvingJob calls for its proof type. *)
C15_StartRestores ==
    [][ start
        => LET stored == DOMAIN database.jobs
               settled == stored \cap DOMAIN database.results
           IN  /\ jobsCache' = database.jobs
               /\ resultsCache' = [ id \in settled |-> database.results[id] ]
               /\ inProgress' = << >>
               /\ retries' = EmptyMap
               /\ \A id \in JobIds :
                    Occurrences(queues', id) = IF id \in stored \ settled THEN 1 ELSE 0
               /\ \A id \in settled :
                    /\ statusOf(resultsCache', jobsCache', inProgress', id).status
                          = IF "value" \in DOMAIN database.results[id] THEN "resolved" ELSE "rejected"
                    /\ database.jobs[id] \notin Drain(queues', inProgress', NoList)
               /\ \A id \in stored \ settled :
                    /\ statusOf(resultsCache', jobsCache', inProgress', id) = [ status |-> "in-queue" ]
                    /\ database.jobs[id] \in Drain(queues', inProgress', << database.jobs[id].type >>) ]_vars

(* a broker constructed on a database that holds a job with a result and a job
   without one, with empty caches and queues: start runs next *)
C15_Witness ==
    /\ ~started
    /\ jobsCache = EmptyMap
    /\ \A t \in ProofTypes : queues[t] = << >>
    /\ \E id \in DOMAIN database.jobs : Has(database.results, id)
    /\ \E id \in DOMAIN database.jobs : ~Has(database.results, id)
    /\ ENABLED start

(* C16: getProvingJobStatus(id) returns not-found whenever id is not in
   jobsCache, also when resultsCache or the in-progress set has an entry for
   it; for an id in jobsCache it returns resolved with the value or rejected
   with the error that resultsCache holds, in-progress if the id is in
   progress, and in-queue otherwise. *)
C16_StatusByJobIndex ==
    \A id \in JobIds :
        status(id) =
            IF ~Has(jobsCache, id) THEN [ status |-> "not-found" ]
            ELSE IF Has(resultsCache, id) /\ "value" \in DOMAIN resultsCache[id]
            THEN [ status |-> "resolved", value |-> resultsCache[id].value ]
            ELSE IF Has(resultsCache, id)
            THEN [ status |-> "rejected", error |-> resultsCache[id].error ]
            ELSE IF Leased(id) THEN [ status |-> "in-progress" ]
            ELSE [ status |-> "in-queue" ]

(* C17: when the database write of enqueueProvingJob, reportProvingJobSuccess
   or a reportProvingJobError that marks the job as failed throws, the caches,
   the queues, the in-progress set and the retry counters are what they were
   before the call: neither the part of the method before the await nor the
   throw changes them. *)
C17_FailedWriteLeavesMemory ==
    [][ /\ \A job \in Jobs : enqueueProvingJobCall(job, FALSE) => UNCHANGED memory
        /\ \A id \in JobIds, value \in Values :
             reportProvingJobSuccessCall(id, value, FALSE) => UNCHANGED memory
        /\ \A id \in JobIds, err \in Errors, retry \in BOOLEAN :
             ( /\ reportProvingJobErrorCall(id, err, retry, FALSE)
               /\ ~shouldRetry(retry, retriesOf(id), maxRetries) )
             => UNCHANGED memory
        /\ \A c \in BagToSet(pending) :
             ( /\ ~c.ok
               /\ \/ enqueueProvingJobResume(c)
                  \/ reportProvingJobSuccessResume(c)
                  \/ reportProvingJobErrorResume(c) )
             => UNCHANGED memory ]_vars

(* C18: when removeAndCancelProvingJob(id) throws because the database delete
   failed, id is already out of jobsCache, resultsCache, the in-progress set
   and the retry counters, so that its status is not-found; and
   removeAndCancelProvingJob of an id the broker has no entry for changes
   nothing in memory. *)
C18_CancelUpdatesMemoryFirst ==
    [][ \A c \in BagToSet(pending) :
          removeAndCancelProvingJobResume(c)
          => /\ ~c.ok
                => /\ ~Has(jobsCache', c.id)
                   /\ ~Has(resultsCache', c.id)
                   /\ ~ipHas(inProgress', c.id)
                   /\ ~Has(retries', c.id)
                   /\ statusOf(resultsCache', jobsCache', inProgress', c.id)
                         = [ status |-> "not-found" ]
             /\ ( ~Has(jobsCache, c.id) /\ ~Has(resultsCache, c.id)
                  /\ ~ipHas(inProgress, c.id) /\ ~Has(retries, c.id) )
                => UNCHANGED memory ]_vars

(* C19: whenever no call is in flight, every id in the in-progress set is in
   jobsCache and has no result in resultsCache. *)
C19_LeasedIsKnownAndUnsettled ==
    Quiescent =>
        \A i \in 1..Len(inProgress) :
            Has(jobsCache, inProgress[i].id) /\ ~Has(resultsCache, inProgress[i].id)

(* C20: whenever no call is in flight, every id that has a result in
   resultsCache is in jobsCache. *)
C20_SettledIsKnown ==
    Quiescent => DOMAIN resultsCache \subseteq DOMAIN jobsCache

(* id is in progress and was last heard of at time u *)
LeasedSince(id, u) == Leased(id) /\ ipGet(inProgress, id).lastUpdatedAt = u

(* a heartbeat after u, a report or a cancel has reached the job *)
HeardOfSince(id, u) ==
    \/ ~Has(jobsCache, id)
    \/ InFlight(id)
    \/ Settled(id)
    \/ Leased(id) /\ ipGet(inProgress, id).lastUpdatedAt > u

(* C21: a job that is in progress, is in jobsCache and has no result, and that
   no heartbeat, report or cancel reaches any more, is eventually out of the
   in-progress set and back in its queue with status in-queue, provided the
   clock keeps advancing and timeoutCheck keeps running.  The leases are those
   the clock of the model can outlast. *)
C21_StaleLeaseIsReclaimed ==
    \A id \in JobIds, u \in 0..(MaxTime - proofRequestTimeoutMs) :
        ( LeasedSince(id, u) /\ Has(jobsCache, id) /\ ~Settled(id) /\ ~InFlight(id) )
        ~> ( \/ ( ~Leased(id) /\ Queued(id) /\ status(id) = [ status |-> "in-queue" ] )
             \/ HeardOfSince(id, u) )

(* a job in progress that has not been heard of for proofRequestTimeoutMs, with
   no call in flight: the next timeoutCheck is the one that puts it back *)
C21_Witness ==
    \E id \in JobIds :
        /\ Leased(id) /\ Has(jobsCache, id) /\ ~Settled(id) /\ ~Queued(id)
        /\ Quiescent
        /\ now - ipGet(inProgress, id).lastUpdatedAt >= proofRequestTimeoutMs
        /\ ENABLED <<TimeoutCheck>>_vars

(* C22: when an enqueueProvingJob call resumes from its database write and
   finds that an overlapping call for the same job has already put the job in
   jobsCache and in its queue, the job is still in its queue exactly once after
   the call returns. *)
C22_OverlappingEnqueuesQueueOnce ==
    [][ \A c \in BagToSet(pending) :
          ( /\ enqueueProvingJobResume(c)
            /\ c.ok
            /\ Has(jobsCache, c.id)
            /\ jobsCache[c.id] = c.job
            /\ Occurrences(queues, c.id) = 1 )
          => Occurrences(queues', c.id) = 1 ]_vars

(* C23: whenever no call is in flight, every id that is in jobsCache and has no
   result in resultsCache is in a queue or in the in-progress set: a job whose
   status is in-queue can be handed out by getProvingJob. *)
C23_NoJobIsLost ==
    Quiescent =>
        \A id \in DOMAIN jobsCache :
            ~Has(resultsCache, id) => Queued(id) \/ Leased(id)

====
